---- MODULE Spec2Model ----
(***************************************************************************)
(* Booking subsystem of the ticket booking backend.                        *)
(*                                                                         *)
(*   backend/models/Booking.js   the booking document, its lifecycle       *)
(*                               methods cancel / confirm / complete /     *)
(*                               checkIn and the schema's indexes          *)
(*   backend/routes/bookings.js  POST /api/bookings and                    *)
(*                               PUT /api/bookings/:id/{cancel,confirm,    *)
(*                               check-in}                                 *)
(*                                                                         *)
(* Every handler is an async function: it runs without interruption up to  *)
(* an await on the database and other requests run in between.  A handler  *)
(* is therefore one action per stretch between its database accesses: the  *)
(* read (findOne / findById) together with everything before it, and the   *)
(* write (save) together with everything after it.  The route and schedule *)
(* catalogs are not written by these handlers, so the reads of them are    *)
(* folded into the stretch that follows.                                   *)
(*                                                                         *)
(* Strings that the code trims are sequences of one-character strings.     *)
(***************************************************************************)
EXTENDS Integers, Sequences, FiniteSets, TLC

\* ------------------------------------------------------------------ bounds
MaxRequests == 3       \* requests the server receives in one run
MaxClock == 2          \* readings of the wall clock
MaxForecasts == 1      \* forecast requests served in one run
MaxSlice == 9          \* samples in a slice handed to calculateTrend

\* --------------------------------------------------------- the environment
\* req.user of the three authenticated requesters, and their roles
Users == {"u1", "u2", "admin"}
Role(u) == IF u = "admin" THEN "admin" ELSE "user"

\* the catalog: two routes, one schedule on each, each with its vehicle
RouteStore == {"r1", "r2"}
ScheduleStore == {"s1", "s2"}
ScheduleRoute(s) == IF s = "s1" THEN "r1" ELSE "r2"
ScheduleVehicle(s) == IF s = "s1" THEN "v1" ELSE "v2"

\* well-formed 24-hex-digit ids; "bad" stands for a string that is none
ObjectIds == {"r1", "r2", "r9", "s1", "s2", "s9"}

VARIABLES
    store,    \* the bookings collection: store[i] is the document with _id i
    req,      \* req[q]: the request handled in slot q and how far it has got
    last,     \* the response sent last
    confirms, \* confirms[i]: the confirm requests for booking i answered 200
    started,  \* the number of requests received so far
    now,      \* the wall clock (new Date())
    this,     \* a stored booking document the lifecycle methods are called on
    ret,      \* outcome of the last lifecycle method called on `this`
    historicalData, \* the forecast service's samples, loaded when it starts
    response, \* the forecast response handed to a caller last
    account,  \* the stored User document of the person who is logged in
    client    \* the browser: its localStorage and its refresh in progress

vars == <<store, req, last, confirms, started, now, this, ret, historicalData,
          response, account, client>>

\* ------------------------------------------------------------------ strings
\* String.prototype.trim, as the validators' trim() and the schema's
\* `trim: true` apply it: leading and trailing blanks are dropped
RECURSIVE TrimLeft(_)
TrimLeft(s) == IF s # <<>> /\ Head(s) = " " THEN TrimLeft(Tail(s)) ELSE s

RECURSIVE TrimRight(_)
TrimRight(s) ==
    IF s # <<>> /\ s[Len(s)] = " " THEN TrimRight(SubSeq(s, 1, Len(s) - 1)) ELSE s

Trim(s) == TrimRight(TrimLeft(s))

\* ------------------------------------------------------- the booking schema
\* a Date path that was never assigned
NoDate == 0
\* an ObjectId path that was never assigned
NoUser == "none"

\* bookingReference before the pre('save') hook has generated one
NoReference == 0

\* faulty variant, to test that the properties detect it: the schema's default status is confirmed
NewBookingConfirmed(user, route, schedule, vehicle, travelDate, seatNumber, fare) ==
    [ user               |-> user,
      route              |-> route,
      schedule           |-> schedule,
      vehicle            |-> vehicle,
      travelDate         |-> travelDate,
      seatNumber         |-> Trim(seatNumber),
      fare               |-> fare,
      status             |-> "confirmed",
      paymentStatus      |-> "pending",
      bookingReference   |-> NoReference,
      cancellationReason |-> <<>>,
      cancelledAt        |-> NoDate,
      cancelledBy        |-> NoUser,
      checkInTime        |-> NoDate,
      checkOutTime       |-> NoDate ]

\* new Booking({...}): the given paths and the schema defaults for status and
\* paymentStatus.  A String path with `trim: true` stores the trimmed value;
\* an absent String is the empty one.
NewBooking(user, route, schedule, vehicle, travelDate, seatNumber, fare) ==
    [ user               |-> user,
      route              |-> route,
      schedule           |-> schedule,
      vehicle            |-> vehicle,
      travelDate         |-> travelDate,
      seatNumber         |-> Trim(seatNumber),
      fare               |-> fare,
      status             |-> "pending",
      paymentStatus      |-> "pending",
      bookingReference   |-> NoReference,
      cancellationReason |-> <<>>,
      cancelledAt        |-> NoDate,
      cancelledBy        |-> NoUser,
      checkInTime        |-> NoDate,
      checkOutTime       |-> NoDate ]

\* bookingSchema.pre('save'): a document without a reference gets a fresh one
\* (timestamp and random suffix; `token` stands for it).  The hook is taken to
\* run before save() checks `required` on bookingReference, which is what the
\* handler's tests expect (201 with a reference).
PreSave(doc, token) ==
    IF doc.bookingReference = NoReference
    THEN [doc EXCEPT !.bookingReference = token]
    ELSE doc

\* What a lifecycle method does: it throws or its save() rejects, and the
\* stored document is as it was, or it assigns and saves.
Throw(doc, message) == [ok |-> FALSE, error |-> message, doc |-> doc]
Saved(doc) == [ok |-> TRUE, error |-> "", doc |-> doc]

\* the schema's maxlength of cancellationReason
MaxReasonLength == 500

\* faulty variant, to test that the properties detect it: cancel does not look at the status
cancelAlways(doc, reason, cancelledBy, t) ==
    IF Len(Trim(reason)) > MaxReasonLength
    THEN Throw(doc, "Cancellation reason cannot exceed 500 characters")
    ELSE Saved([doc EXCEPT !.status = "cancelled",
                           !.cancellationReason = Trim(reason),
                           !.cancelledAt = t,
                           !.cancelledBy = cancelledBy])

\* bookingSchema.methods.cancel; its save() runs the schema's validators on
\* the paths it assigned
cancel(doc, reason, cancelledBy, t) ==
    IF doc.status = "completed" THEN Throw(doc, "Cannot cancel completed booking")
    ELSE IF doc.status = "cancelled" THEN Throw(doc, "Booking already cancelled")
    ELSE IF Len(Trim(reason)) > MaxReasonLength
    THEN Throw(doc, "Cancellation reason cannot exceed 500 characters")
    ELSE Saved([doc EXCEPT !.status = "cancelled",
                           !.cancellationReason = Trim(reason),
                           !.cancelledAt = t,
                           !.cancelledBy = cancelledBy])

\* faulty variant, to test that the properties detect it: confirm refuses only what cancel refuses
confirmUnlessEnded(doc) ==
    IF doc.status \in {"cancelled", "completed"}
    THEN Throw(doc, "Only pending bookings can be confirmed")
    ELSE Saved([doc EXCEPT !.status = "confirmed", !.paymentStatus = "paid"])

\* bookingSchema.methods.confirm
confirm(doc) ==
    IF doc.status # "pending" THEN Throw(doc, "Only pending bookings can be confirmed")
    ELSE Saved([doc EXCEPT !.status = "confirmed", !.paymentStatus = "paid"])

\* bookingSchema.methods.complete
complete(doc, t) ==
    IF doc.status # "confirmed"
    THEN Throw(doc, "Only confirmed bookings can be completed")
    ELSE Saved([doc EXCEPT !.status = "completed", !.checkOutTime = t])

\* faulty variant, to test that the properties detect it: checkIn does not look at the status
checkInAlways(doc, t) == Saved([doc EXCEPT !.checkInTime = t])

\* bookingSchema.methods.checkIn
checkIn(doc, t) ==
    IF doc.status # "confirmed"
    THEN Throw(doc, "Only confirmed bookings can be checked in")
    ELSE Saved([doc EXCEPT !.checkInTime = t])

\* ------------------------------------------------------------ inputs
\* cancellation reasons as cancel() is called with them
LongReason == [i \in 1..(MaxReasonLength + 1) |-> "x"]
RawReasons == { <<>>, <<"o", "k">>, <<" ", "o", "k">>, LongReason }

\* ------------------------------------------------------------ the clock
Tick ==
    /\ now < MaxClock
    /\ now' = now + 1
    /\ UNCHANGED <<store, req, last, confirms, started, this, ret, historicalData, response, account, client>>

\* ======================================================================
\* The lifecycle methods on one document.  The document is a booking as
\* POST /api/bookings creates it, or one the store holds as no_show (the
\* schema's enum admits the status; no method assigns it).
\* ======================================================================
NoCall == [op |-> "none", ok |-> TRUE, error |-> ""]
Called(op, r) == [op |-> op, ok |-> r.ok, error |-> r.error]

CancelWith(reason, by) ==
    LET r == cancel(this, reason, by, now) IN
    /\ this' = r.doc
    /\ ret' = Called("cancel", r)
    /\ UNCHANGED <<store, req, last, confirms, started, now, historicalData, response, account, client>>

CallCancel == \E reason \in RawReasons, by \in Users : CancelWith(reason, by)

CallConfirm ==
    LET r == confirm(this) IN
    /\ this' = r.doc
    /\ ret' = Called("confirm", r)
    /\ UNCHANGED <<store, req, last, confirms, started, now, historicalData, response, account, client>>

CallComplete ==
    LET r == complete(this, now) IN
    /\ this' = r.doc
    /\ ret' = Called("complete", r)
    /\ UNCHANGED <<store, req, last, confirms, started, now, historicalData, response, account, client>>

CallCheckIn ==
    LET r == checkIn(this, now) IN
    /\ this' = r.doc
    /\ ret' = Called("checkIn", r)
    /\ UNCHANGED <<store, req, last, confirms, started, now, historicalData, response, account, client>>

LifecycleDocs ==
    { [PreSave(NewBooking("u1", "r1", "s1", "v1", 2, <<"A", "1">>, 20), 1)
          EXCEPT !.status = st] : st \in {"pending", "no_show"} }

NoDoc == NewBooking(NoUser, "none", "none", "none", NoDate, <<>>, 0)

\* ======================================================================
\* The request handlers of routes/bookings.js
\* ======================================================================
Slots == {1, 2}

\* a slot that handles no request
Free ==
    [ pc |-> "free", kind |-> "none", user |-> NoUser, id |-> 0, doc |-> NoDoc,
      reason |-> <<>> ]

\* a response: the handler that sent it, the booking it is about (0: none),
\* its HTTP status; `threw` is for a handler that ended by throwing, which
\* leaves the response to the error middleware
Responded(kind, id, status) ==
    [kind |-> kind, id |-> id, status |-> status, threw |-> FALSE]
Threw(kind) == [kind |-> kind, id |-> 0, status |-> 0, threw |-> TRUE]
NoResponse == [kind |-> "none", id |-> 0, status |-> 0, threw |-> FALSE]

\* --------------------------------------------------- POST /api/bookings
RouteIdInputs == {"r1", "r2", "r9", "bad"}
ScheduleIdInputs == {"s1", "s2", "s9"}
TravelDateInputs ==
    { [iso |-> TRUE, t |-> 0], [iso |-> TRUE, t |-> 2], [iso |-> FALSE, t |-> 0] }
SeatInputs == { <<"A", "1">>, <<" ", "A", "1">>, <<"A", "2">>, <<" ">> }
FareInputs ==
    { [numeric |-> TRUE, value |-> 20], [numeric |-> TRUE, value |-> -5],
      [numeric |-> FALSE, value |-> 0] }

\* the schema's `min: [new Date(), ...]` on travelDate: the clock when the
\* schema was built, which is when the server started
MinTravelDate == 1

Faults(b) ==
      (IF b.routeId \in RouteStore THEN 0 ELSE 1)
    + (IF b.scheduleId \in ScheduleStore THEN 0 ELSE 1)
    + (IF b.routeId \in RouteStore /\ b.scheduleId \in ScheduleStore
          /\ ScheduleRoute(b.scheduleId) # b.routeId THEN 1 ELSE 0)
    + (IF b.travelDate.iso /\ b.travelDate.t >= MinTravelDate THEN 0 ELSE 1)
    + (IF Trim(b.seatNumber) # <<>> THEN 0 ELSE 1)
    + (IF b.fare.numeric /\ b.fare.value >= 0 THEN 0 ELSE 1)

\* request bodies: the combinations of the inputs with at most one thing wrong
\* in them; the second schedule is asked for one seat label only.  The
\* optional fields (passengerDetails, specialRequests) are left out.
PostBodies ==
    { x : x \in
        { b \in [ routeId : RouteIdInputs, scheduleId : ScheduleIdInputs,
                  travelDate : TravelDateInputs, seatNumber : SeatInputs,
                  fare : FareInputs ] :
            /\ Faults(b) <= 1
            /\ b.scheduleId = "s2" => b.seatNumber = <<"A", "1">> } }

\* the express-validator chain of the route: the fields it rejects
ValidationErrors(b) ==
       (IF b.routeId \in ObjectIds THEN {} ELSE {"routeId"})
    \cup (IF b.scheduleId \in ObjectIds THEN {} ELSE {"scheduleId"})
    \cup (IF b.travelDate.iso THEN {} ELSE {"travelDate"})
    \cup (IF Trim(b.seatNumber) # <<>> THEN {} ELSE {"seatNumber"})
    \cup (IF b.fare.numeric THEN {} ELSE {"fare"})

\* Booking.findOne({schedule, travelDate, seatNumber, status: {$in: [...]}})
ActiveStatuses == {"pending", "confirmed"}

\* faulty variant, to test that the properties detect it: the query matches confirmed bookings only
FindExistingConfirmedOnly(st, schedule, travelDate, seatNumber) ==
    { i \in 1..Len(st) :
        /\ st[i].schedule = schedule
        /\ st[i].travelDate = travelDate
        /\ st[i].seatNumber = seatNumber
        /\ st[i].status = "confirmed" }

FindExisting(st, schedule, travelDate, seatNumber) ==
    { i \in 1..Len(st) :
        /\ st[i].schedule = schedule
        /\ st[i].travelDate = travelDate
        /\ st[i].seatNumber = seatNumber
        /\ st[i].status \in ActiveStatuses }

\* faulty variant, to test that the properties detect it: the seat check comes before the route and schedule lookups
PostCheckStatusSeatFirst(st, b) ==
    IF ValidationErrors(b) # {} THEN 400
    ELSE IF { i \in 1..Len(st) :
                /\ st[i].schedule = b.scheduleId
                /\ st[i].travelDate = b.travelDate.t
                /\ st[i].seatNumber = Trim(b.seatNumber)
                /\ st[i].status \in ActiveStatuses } # {}
         THEN 409
    ELSE IF b.routeId \notin RouteStore THEN 404
    ELSE IF b.scheduleId \notin ScheduleStore
            \/ ScheduleRoute(b.scheduleId) # b.routeId THEN 404
    ELSE 0

\* the handler up to and including the seat check: the status it responds
\* with, or 0 when it goes on to create the booking
PostCheckStatus(st, b) ==
    IF ValidationErrors(b) # {} THEN 400
    ELSE IF b.routeId \notin RouteStore THEN 404
    ELSE IF b.scheduleId \notin ScheduleStore
            \/ ScheduleRoute(b.scheduleId) # b.routeId THEN 404
    ELSE IF FindExisting(st, b.scheduleId, b.travelDate.t, Trim(b.seatNumber)) # {}
         THEN 409
    ELSE 0

\* the handler of `user`'s request with body b, up to its await of save()
PostRequest(q, user, b) ==
    /\ req[q].pc = "free"
    /\ started < MaxRequests
    /\ started' = started + 1
    /\ LET code == PostCheckStatus(store, b) IN
       IF code # 0
       THEN /\ last' = Responded("create", 0, code)
            /\ UNCHANGED req
       ELSE /\ req' = [req EXCEPT ![q] =
                   [ pc |-> "saving", kind |-> "create", user |-> user, id |-> 0,
                     doc |-> NewBooking(user, b.routeId, b.scheduleId,
                                        ScheduleVehicle(b.scheduleId),
                                        b.travelDate.t, b.seatNumber,
                                        b.fare.value),
                     reason |-> <<>> ]]
            /\ UNCHANGED last
    /\ UNCHANGED <<store, confirms, now, this, ret, historicalData, response, account, client>>

\* the requesters who book: one user and the administrator; the other user
\* only sends requests about bookings that are not theirs
Creators == {"u1", "admin"}

PostCheck(q) == \E user \in Creators, b \in PostBodies : PostRequest(q, user, b)

\* the schema's validators, run by save(): the paths they reject
SchemaErrors(doc) ==
       (IF doc.travelDate >= MinTravelDate THEN {} ELSE {"travelDate"})
    \cup (IF doc.fare >= 0 THEN {} ELSE {"fare"})
    \cup (IF doc.seatNumber # <<>> THEN {} ELSE {"seatNumber"})

\* await booking.save() and the rest of the handler: the populate, the emit
\* of booking:create and the response.  `emitted` is whether
\* io.to(...).emit(...) returned; when it throws (no io on the app, an adapter
\* that fails) the handler ends there, after the save.
PostSaveEmit(q, emitted) ==
    /\ req[q].pc = "saving"
    /\ IF SchemaErrors(req[q].doc) # {}
       THEN /\ last' = Threw("create")
            /\ UNCHANGED store
       ELSE LET id == Len(store) + 1 IN
            /\ store' = Append(store, PreSave(req[q].doc, id))
            /\ last' = IF emitted THEN Responded("create", id, 201)
                                  ELSE Threw("create")
    /\ req' = [req EXCEPT ![q] = Free]
    /\ UNCHANGED <<confirms, started, now, this, ret, historicalData, response, account, client>>

PostSave(q) == \E emitted \in BOOLEAN : PostSaveEmit(q, emitted)

\* ------------------------------------------- PUT /api/bookings/:id/...
\* Booking.findById(req.params.id): the ids of stored documents, and one id
\* that no document has
IdInputs == 1..(Len(store) + 1)

\* faulty variant, to test that the properties detect it: the check lets everybody through
AccessDeniedNever(doc, user) == FALSE

\* the handlers' check "if user owns this booking": TRUE when it denies
AccessDenied(doc, user) == doc.user # user

\* faulty variant, to test that the properties detect it: the update leaves paymentStatus out
SaveModifiedUnpaid(stored, loaded, changed) ==
    [ f \in DOMAIN stored |->
        IF f # "paymentStatus" /\ changed[f] # loaded[f] THEN changed[f] ELSE stored[f] ]

\* document.save() of a loaded document: an update that sets the paths whose
\* value differs from the loaded one, and no other path
SaveModified(stored, loaded, changed) ==
    [ f \in DOMAIN stored |-> IF changed[f] # loaded[f] THEN changed[f] ELSE stored[f] ]

\* await Booking.findById(...) and the 404 of a missing booking
Load(q, kind, user, id, reason) ==
    /\ req[q].pc = "free"
    /\ started < MaxRequests
    /\ started' = started + 1
    /\ IF id \in 1..Len(store)
       THEN /\ req' = [req EXCEPT ![q] =
                  [ pc |-> "loaded", kind |-> kind, user |-> user, id |-> id,
                    doc |-> store[id], reason |-> reason ]]
            /\ UNCHANGED last
       ELSE /\ last' = Responded(kind, 0, 404)
            /\ UNCHANGED req
    /\ UNCHANGED <<store, confirms, now, this, ret, historicalData, response, account, client>>

\* faulty variant, to test that the properties detect it: a cancel removes the document
ApplyRemoving(q, r, completed) ==
    LET rq == req[q] IN
    /\ req' = [req EXCEPT ![q] = Free]
    /\ IF AccessDenied(rq.doc, rq.user)
       THEN /\ last' = Responded(rq.kind, rq.id, 403)
            /\ UNCHANGED store
       ELSE IF ~r.ok
       THEN /\ last' = Threw(rq.kind)
            /\ UNCHANGED store
       ELSE /\ store' = IF rq.kind = "cancel"
                        THEN SubSeq(store, 1, Len(store) - 1)
                        ELSE [store EXCEPT ![rq.id] = SaveModified(@, rq.doc, r.doc)]
            /\ last' = IF completed THEN Responded(rq.kind, rq.id, 200)
                                    ELSE Threw(rq.kind)

\* the rest of a handler once the booking is loaded: the ownership check, the
\* lifecycle method `r` is the outcome of, what follows it (`completed`: it
\* did not throw) and the response
Apply(q, r, completed) ==
    LET rq == req[q] IN
    /\ req' = [req EXCEPT ![q] = Free]
    /\ IF AccessDenied(rq.doc, rq.user)
       THEN /\ last' = Responded(rq.kind, rq.id, 403)
            /\ UNCHANGED store
       ELSE IF ~r.ok
       THEN /\ last' = Threw(rq.kind)
            /\ UNCHANGED store
       ELSE /\ store' = [store EXCEPT ![rq.id] = SaveModified(@, rq.doc, r.doc)]
            /\ last' = IF completed THEN Responded(rq.kind, rq.id, 200)
                                    ELSE Threw(rq.kind)

\* body('reason').optional().trim(): the reasons sent to the route, one with
\* a blank before it and one too long for the schema
RouteReasons == { <<" ", "o", "k">>, LongReason }

CancelLoad(q) ==
    \E user \in Users, id \in IdInputs, reason \in RouteReasons :
        Load(q, "cancel", user, id, Trim(reason))

\* after booking.cancel(...): the populate, the emit of booking:cancel, which
\* returns or throws, and the response
CancelApply(q) ==
    /\ req[q].pc = "loaded"
    /\ req[q].kind = "cancel"
    /\ \E emitted \in BOOLEAN :
          Apply(q, cancel(req[q].doc, req[q].reason, req[q].user, now), emitted)
    /\ UNCHANGED <<confirms, started, now, this, ret, historicalData, response, account, client>>

ConfirmLoad(q) ==
    \E user \in Users, id \in IdInputs : Load(q, "confirm", user, id, <<>>)

ConfirmApply(q) ==
    /\ req[q].pc = "loaded"
    /\ req[q].kind = "confirm"
    /\ Apply(q, confirm(req[q].doc), TRUE)
    /\ confirms' = IF last'.status = 200
                   THEN [confirms EXCEPT ![req[q].id] = @ + 1]
                   ELSE confirms
    /\ UNCHANGED <<started, now, this, ret, historicalData, response, account, client>>

CheckInLoad(q) ==
    \E user \in Users, id \in IdInputs : Load(q, "checkIn", user, id, <<>>)

CheckInApply(q) ==
    /\ req[q].pc = "loaded"
    /\ req[q].kind = "checkIn"
    /\ Apply(q, checkIn(req[q].doc, now), TRUE)
    /\ UNCHANGED <<confirms, started, now, this, ret, historicalData, response, account, client>>

\* ------------------------- GET /api/schedules/route/:routeId/available-seats
\* schedule.vehicle.capacity of the catalog's vehicles
Capacity(v) == IF v = "v1" THEN 2 ELSE 1

\* a number in a template literal: its decimal digits
DigitChar(d) == <<"0", "1", "2", "3", "4", "5", "6", "7", "8", "9">>[d + 1]

RECURSIVE NumberToString(_)
NumberToString(n) ==
    IF n < 10 THEN <<DigitChar(n)>>
    ELSE NumberToString(n \div 10) \o <<DigitChar(n % 10)>>

\* `Seat ${i}`
SeatLabel(i) == <<"S", "e", "a", "t", " ">> \o NumberToString(i)

\* the seats the listing enumerates for a schedule: Seat 1 .. Seat <capacity>
EnumeratedSeats(schedule) ==
    { SeatLabel(i) : i \in 1..Capacity(ScheduleVehicle(schedule)) }

\* Booking.find({schedule, travelDate, status: {$in: [...]}}).select('seatNumber')
BookedSeatNumbers(st, schedule, travelDate) ==
    { st[i].seatNumber : i \in { j \in 1..Len(st) :
                                    /\ st[j].schedule = schedule
                                    /\ st[j].travelDate = travelDate
                                    /\ st[j].status \in ActiveStatuses } }

\* availableSeats of the response
AvailableSeats(st, schedule, travelDate) ==
    EnumeratedSeats(schedule) \ BookedSeatNumbers(st, schedule, travelDate)

\* ------------------- POST /api/bookings with seat labels and times of day
\* bodies for the first schedule that differ in the seat label (two that the
\* listing enumerates, one above the capacity, one in another format) and in
\* the instant of the travel date (2 and 3 are instants of one calendar day)
SeatLabelInputs == { SeatLabel(1), SeatLabel(2), SeatLabel(3), <<"A", "1">> }
SeatBodies ==
    { x : x \in [ routeId : {"r1"}, scheduleId : {"s1"},
                  travelDate : { [iso |-> TRUE, t |-> 2], [iso |-> TRUE, t |-> 3] },
                  seatNumber : SeatLabelInputs,
                  fare : { [numeric |-> TRUE, value |-> 20] } ] }

PostSeat(q) == \E b \in SeatBodies : PostRequest(q, "u1", b)

\* --------------------------------------------- GET /api/users/:id/bookings
\* requireOwnership: TRUE when it answers 403. The middleware reads
\* req.params.userId || req.body.userId; `paramsUserId` is NoUser on a route
\* whose parameter has another name, `bodyUserId` is NoUser when the body
\* has no userId.
requireOwnership(user, paramsUserId, bodyUserId) ==
    IF Role(user) = "admin" THEN FALSE
    ELSE LET resourceUserId ==
                 IF paramsUserId # NoUser THEN paramsUserId ELSE bodyUserId
         IN  resourceUserId # NoUser /\ resourceUserId # user

\* Booking.find(query).sort({ createdAt: -1 }): the matching documents, the
\* newest first (the page of 10 holds them all)
RECURSIVE FindByUser(_, _, _, _)
FindByUser(docs, i, user, status) ==
    IF i = 0 THEN <<>>
    ELSE IF docs[i].user = user /\ (status = "" \/ docs[i].status = status)
         THEN <<docs[i]>> \o FindByUser(docs, i - 1, user, status)
         ELSE FindByUser(docs, i - 1, user, status)

\* the answer of the route: who asked, whose bookings, and the bookings sent
UserBookings(requester, owner, status, bookings) ==
    [ kind |-> "userBookings", id |-> 0, status |-> status, threw |-> FALSE,
      requester |-> requester, owner |-> owner, bookings |-> bookings ]

StatusFilters == {"", "pending"}

\* the route's parameter is :id, so req.params.userId is undefined
GetUserBookingsOf(requester, id, bodyUserId, status) ==
    /\ last' = IF requireOwnership(requester, NoUser, bodyUserId)
               THEN UserBookings(requester, id, 403, <<>>)
               ELSE UserBookings(requester, id, 200,
                                 FindByUser(store, Len(store), id, status))
    /\ UNCHANGED <<store, req, confirms, started, now, this, ret, historicalData,
                   response, account, client>>

GetUserBookings ==
    \E requester \in Users, id \in Users, bodyUserId \in Users \cup {NoUser},
       status \in StatusFilters :
        GetUserBookingsOf(requester, id, bodyUserId, status)

\* the reservations of the two passengers
UserBodies ==
    { x : x \in [ routeId : {"r1"}, scheduleId : {"s1"},
                  travelDate : { [iso |-> TRUE, t |-> 2] },
                  seatNumber : { SeatLabel(1), SeatLabel(2) },
                  fare : { [numeric |-> TRUE, value |-> 20] } ] }

PostUser(q) == \E user \in {"u1", "u2"}, b \in UserBodies : PostRequest(q, user, b)

\* ======================================================================
\* The forecast estimator (forecasting/services/forecastService.js), its
\* controller and the backend's routes that call it (routes/forecast.js)
\* ======================================================================
\* ------------------------------------------------- JavaScript numbers
\* a finite number is the rational n/d in lowest terms (d > 0); the two other
\* values that the divisions of the service produce are NaN and Infinity
RECURSIVE GCD(_, _)
GCD(a, b) == IF b = 0 THEN a ELSE GCD(b, a % b)

Rat(n, d) ==
    LET g == GCD(IF n < 0 THEN -n ELSE n, d) IN
    [kind |-> "num", n |-> n \div g, d |-> d \div g]
Num(i) == Rat(i, 1)
NaN == [kind |-> "NaN", n |-> 0, d |-> 1]
Infinity == [kind |-> "Infinity", n |-> 1, d |-> 1]

Add(a, b) == Rat(a.n * b.d + b.n * a.d, a.d * b.d)
Sub(a, b) == Rat(a.n * b.d - b.n * a.d, a.d * b.d)
Mul(a, b) ==
    IF a.kind # "num" THEN a ELSE IF b.kind # "num" THEN b
    ELSE Rat(a.n * b.n, a.d * b.d)
\* a / b for b >= 0: 0/0 is NaN, x/0 is Infinity for x > 0
Divide(a, b) ==
    IF b.n = 0 THEN (IF a.n = 0 THEN NaN ELSE Infinity)
    ELSE Rat(a.n * b.d, a.d * b.n)
\* a > b and a < b for a finite b: false when a is NaN
Greater(a, b) ==
    \/ a.kind = "Infinity"
    \/ a.kind = "num" /\ a.n * b.d > b.n * a.d
Less(a, b) == a.kind = "num" /\ a.n * b.d < b.n * a.d
MathAbs(a) == IF a.n < 0 THEN Rat(-a.n, a.d) ELSE a
MathFloor(a) == Num(a.n \div a.d)
MathRound(a) == IF a.kind # "num" THEN a ELSE Num((2 * a.n + a.d) \div (2 * a.d))
MathMax(a, b) == IF Greater(b, a) THEN b ELSE a
\* Math.min(a, b) for a finite a: NaN when b is NaN
MathMin(a, b) ==
    IF b.kind = "NaN" THEN NaN
    ELSE IF b.kind = "Infinity" THEN a
    ELSE IF Greater(a, b) THEN b ELSE a

\* --------------------------------------------------------------- dates
\* moment(date): whether the string is a date, its place in the calendar
\* (ord, in days), its month() (0: January) and its day() (0: Sunday)
Day(ord, month, dow) == [valid |-> TRUE, ord |-> ord, month |-> month, dow |-> dow]
InvalidDate == [valid |-> FALSE, ord |-> 0, month |-> 0, dow |-> 0]

JanMonday == Day(15, 0, 1)
MarWednesday == Day(73, 2, 3)
MarSaturday == Day(76, 2, 6)
JulSunday == Day(196, 6, 0)
NovTuesday == Day(309, 10, 2)
DecSaturday == Day(342, 11, 6)
ValidDates == { JanMonday, MarWednesday, MarSaturday, JulSunday, NovTuesday, DecSaturday }
DateInputs == ValidDates \cup {InvalidDate}

\* ------------------------------------------------------------- samples
Sample(route, date, hour, bookings, capacity) ==
    [route |-> route, date |-> date, hour |-> hour, bookings |-> bookings,
     capacity |-> capacity]

\* n samples of one route, day of week and hour
RECURSIVE Repeat(_, _)
Repeat(x, n) == IF n = 0 THEN <<>> ELSE <<x>> \o Repeat(x, n - 1)

\* what loadHistoricalData leaves in this.historicalData: the rows of the CSV
\* file, or generated samples when the file is missing or unreadable
Datasets ==
    { <<>>,
      <<Sample("A", JanMonday, 9, 0, 0)>>,
      <<Sample("B", JanMonday, 9, 30, 50)>>,
      <<Sample("A", JanMonday, 24, 30, 50)>>,
      <<Sample("B", JanMonday, 24, 30, 50)>>,
      <<Sample("A", JanMonday, 9, 30, 50), Sample("A", MarWednesday, 9, 30, 50),
        Sample("A", MarSaturday, 9, 45, 50), Sample("A", JulSunday, 9, 30, 50),
        Sample("A", NovTuesday, 9, 30, 50), Sample("A", DecSaturday, 9, 48, 50)>>,
      <<Sample("A", JanMonday, 9, 10, 60)>> \o Repeat(Sample("A", JanMonday, 9, 40, 60), 7),
      <<Sample("A", JanMonday, 9, 40, 60)>> \o Repeat(Sample("A", JanMonday, 9, 10, 60), 7),
      <<Sample("A", JanMonday, 9, 20, 60)>> \o Repeat(Sample("A", JanMonday, 9, 21, 60), 7) }

RECURSIVE SumBookings(_)
SumBookings(data) ==
    IF data = <<>> THEN 0 ELSE Head(data).bookings + SumBookings(Tail(data))

RECURSIVE SumCapacity(_)
SumCapacity(data) ==
    IF data = <<>> THEN 0 ELSE Head(data).capacity + SumCapacity(Tail(data))

\* data.reduce((sum, d) => sum + d.bookings, 0) / data.length, for data that
\* is not empty
AvgBookings(data) == Rat(SumBookings(data), Len(data))
AvgCapacity(data) == Rat(SumCapacity(data), Len(data))

\* ------------------------------------------------------ the estimator
\* faulty variant, to test that the properties detect it: the oldest seven samples count as the recent ones
calculateTrendOldestSeven(data) ==
    IF Len(data) < 2 THEN Num(0)
    ELSE LET recent == SubSeq(data, 1, IF Len(data) > 7 THEN 7 ELSE Len(data))
             older == SubSeq(data, 8, Len(data))
         IN IF Len(recent) = 0 \/ Len(older) = 0 THEN Num(0)
            ELSE Sub(AvgBookings(recent), AvgBookings(older))

calculateTrend(data) ==
    IF Len(data) < 2 THEN Num(0)
    ELSE LET recent == SubSeq(data, IF Len(data) > 7 THEN Len(data) - 6 ELSE 1, Len(data))
             older == SubSeq(data, 1, Len(data) - 7)
         IN IF Len(recent) = 0 \/ Len(older) = 0 THEN Num(0)
            ELSE Sub(AvgBookings(recent), AvgBookings(older))

\* faulty variant, to test that the properties detect it: the summer months come first
getSeasonalFactorSummerFirst(date) ==
    IF date.month >= 4 /\ date.month <= 8 THEN -3
    ELSE IF date.dow = 0 \/ date.dow = 6 THEN -5
    ELSE IF date.month = 11 \/ date.month = 0 THEN 5
    ELSE 0

getSeasonalFactor(date) ==
    IF date.month = 11 \/ date.month = 0 THEN 5
    ELSE IF date.month >= 4 /\ date.month <= 8 THEN -3
    ELSE IF date.dow = 0 \/ date.dow = 6 THEN -5
    ELSE 0

generateExplanation(predictedBookings, capacity, trend, date) ==
       (IF Greater(trend, Num(5)) THEN <<"Increasing ridership trend detected">>
        ELSE IF Greater(Num(-5), trend) THEN <<"Decreasing ridership trend detected">>
        ELSE <<>>)
    \o (IF date.dow = 0 \/ date.dow = 6
        THEN <<"Weekend typically shows 30% lower ridership">>
        ELSE <<"Weekday peak hours expected">>)
    \o (IF Greater(Divide(predictedBookings, capacity), Rat(4, 5))
        THEN <<"High utilization expected - consider additional capacity">>
        ELSE <<>>)
    \o <<"Weather and events may affect actual ridership">>

\* what the estimator answers with: the payload and, for the properties, how
\* it was made (from samples or not, and with which seasonal adjustment)
Computed(data, seasonal) ==
    [ data |-> data, synthetic |-> FALSE, seasonal |-> seasonal, threw |-> FALSE,
      caught |-> FALSE ]
Synthetic(data) ==
    [ data |-> data, synthetic |-> TRUE, seasonal |-> 0, threw |-> FALSE,
      caught |-> FALSE ]
\* an exception instead of a result
Thrown ==
    [ data |-> <<>>, synthetic |-> FALSE, seasonal |-> 0, threw |-> TRUE,
      caught |-> FALSE ]

\* generateMockPrediction; rnd are its three draws of Math.random()
generateMockPrediction(route, date, hour, rnd) ==
    LET baseBookings == Add(Num(20), Mul(rnd[1], Num(30)))
        capacity == Add(Num(50), MathFloor(Mul(rnd[2], Num(50))))
        utilization == MathRound(Mul(Divide(baseBookings, capacity), Num(100)))
    IN Synthetic(
        [ route           |-> route,
          datetime        |-> date,
          predicted_count |-> MathFloor(baseBookings),
          capacity        |-> capacity,
          utilization_pct |-> MathMin(Num(100), utilization),
          confidence      |-> Add(Num(70), Mul(rnd[3], Num(20))),
          explanation     |-> << "Based on historical patterns for this route",
                                 "Weekend traffic typically shows 20% higher utilization",
                                 "Weather conditions may affect ridership" >> ])

\* an absent hour parameter
NoHour == -1

\* getPrediction; rnd[1] is the draw of the noise, rnd the draws of the
\* fallback.  Nothing in the try block throws for these inputs.
getPrediction(data, route, date, hour, rnd) ==
    LET targetHour == IF hour = NoHour THEN 9 ELSE hour
        routeData == SelectSeq(data, LAMBDA d : d.route = route)
        sameHourData ==
            SelectSeq(routeData, LAMBDA d :
                /\ d.date.valid /\ date.valid
                /\ d.date.dow = date.dow
                /\ d.hour = targetHour)
    IN IF Len(routeData) = 0 THEN generateMockPrediction(route, date, targetHour, rnd)
       ELSE IF Len(sameHourData) = 0
       THEN generateMockPrediction(route, date, targetHour, rnd)
       ELSE
         LET avgBookings == AvgBookings(sameHourData)
             avgCapacity == AvgCapacity(sameHourData)
             trend == calculateTrend(sameHourData)
             seasonalFactor == getSeasonalFactor(date)
             noise == Mul(Sub(rnd[1], Rat(1, 2)), Num(10))
             predictedBookings ==
                 MathMax(Num(0), MathFloor(
                     Add(Add(Add(avgBookings, trend), noise), Num(seasonalFactor))))
             utilization ==
                 MathRound(Mul(Divide(predictedBookings, avgCapacity), Num(100)))
             confidence == MathMax(Num(60), Sub(Num(100), Mul(MathAbs(trend), Num(2))))
         IN Computed(
              [ route           |-> route,
                datetime        |-> date,
                predicted_count |-> predictedBookings,
                capacity        |-> MathFloor(avgCapacity),
                utilization_pct |-> MathMin(Num(100), utilization),
                confidence      |-> MathMin(Num(95), confidence),
                explanation     |-> generateExplanation(predictedBookings, avgCapacity,
                                                        trend, date) ],
              seasonalFactor)

\* ------------------------------------------------------- the requests
RouteInputs == {"A", "C"}
HourInputs == {NoHour, 10}
RandomDraws == { <<Rat(0, 1), Rat(0, 1), Rat(0, 1)>>,
                 <<Rat(1, 2), Rat(1, 2), Rat(1, 2)>>,
                 <<Rat(99, 100), Rat(0, 1), Rat(99, 100)>>,
                 <<Rat(99, 100), Rat(99, 100), Rat(0, 1)>> }

NoForecast ==
    [ source |-> "none", kind |-> "none", status |-> 0, note |-> FALSE,
      synthetic |-> FALSE, seasonal |-> 0, caught |-> FALSE, data |-> <<>> ]

\* res.json({success: true, data [, note]}), or the 500 of the controller's
\* catch when the service threw
Success(source, kind, outcome, note) ==
    [ source |-> source, kind |-> kind,
      status |-> IF outcome.threw THEN 500 ELSE 200, note |-> note,
      synthetic |-> outcome.synthetic, seasonal |-> outcome.seasonal,
      caught |-> outcome.caught, data |-> outcome.data ]

\* the estimator's GET /predict (controllers/forecastController.js) with both
\* parameters present
\* faulty variant, to test that the properties detect it: the prediction is kept as a sample
EstimatorPredictCaching(route, date, hour, rnd) ==
    /\ started < MaxForecasts
    /\ started' = started + 1
    /\ response' = Success("estimator", "prediction",
                           getPrediction(historicalData, route, date, hour, rnd), FALSE)
    /\ historicalData' = Append(historicalData, Sample(route, date, 9, 0, 50))
    /\ UNCHANGED <<store, req, last, confirms, now, this, ret, account, client>>

EstimatorPredict(route, date, hour, rnd) ==
    /\ started < MaxForecasts
    /\ started' = started + 1
    /\ response' = Success("estimator", "prediction",
                           getPrediction(historicalData, route, date, hour, rnd), FALSE)
    /\ UNCHANGED <<store, req, last, confirms, now, this, ret, historicalData, account, client>>

Predict ==
    \E route \in RouteInputs, date \in DateInputs, hour \in HourInputs, rnd \in RandomDraws :
        EstimatorPredict(route, date, hour, rnd)

\* the mock of the backend's GET /api/forecast/predict
BackendMockPrediction(route, date, rnd) ==
    Synthetic(
        [ route           |-> route,
          datetime        |-> date,
          predicted_count |-> Add(MathFloor(Mul(rnd[1], Num(50))), Num(10)),
          capacity        |-> Num(60),
          utilization_pct |-> Add(MathFloor(Mul(rnd[2], Num(80))), Num(20)),
          confidence      |-> Add(MathFloor(Mul(rnd[3], Num(30))), Num(70)),
          explanation     |-> << "Based on historical patterns for this route",
                                 "Weekend traffic typically shows 20% higher utilization",
                                 "Weather conditions may affect ridership" >> ])

\* the backend's GET /api/forecast/predict with both parameters present:
\* `reached` is whether axios.get answered within the timeout
BackendPredictWith(route, date, hour, rnd, reached) ==
    /\ started < MaxForecasts
    /\ started' = started + 1
    /\ response' =
          IF reached
          THEN Success("backend", "prediction",
                       getPrediction(historicalData, route, date, hour, rnd), FALSE)
          ELSE Success("backend", "prediction",
                       BackendMockPrediction(route, date, rnd), TRUE)
    /\ UNCHANGED <<store, req, last, confirms, now, this, ret, historicalData, account, client>>

BackendPredict ==
    \E route \in RouteInputs, date \in DateInputs, hour \in HourInputs,
       rnd \in RandomDraws, reached \in BOOLEAN :
        BackendPredictWith(route, date, hour, rnd, reached)

\* ------------------------------------------------------- analytics
\* moment() and moment().subtract(30, 'days') when a request arrives
Today == Day(345, 11, 2)
ThirtyDaysAgo == Day(315, 10, 0)

\* an absent startDate or endDate parameter
NoDateParam == [valid |-> FALSE, ord |-> -1, month |-> 0, dow |-> 0]

DayNames == <<"monday", "tuesday", "wednesday", "thursday", "friday", "saturday", "sunday">>

\* the cell of a heatmap or trend: the mean utilization and bookings of the
\* samples `some`, or 0 bookings of a capacity of 50 when there is none
Cell(some) ==
    LET avgBookings == IF Len(some) > 0 THEN AvgBookings(some) ELSE Num(0)
        avgCapacity == IF Len(some) > 0 THEN AvgCapacity(some) ELSE Num(50)
    IN [ utilization |-> MathRound(Mul(Divide(avgBookings, avgCapacity), Num(100))),
         bookings |-> MathRound(avgBookings) ]

HourData(data, hour) == SelectSeq(data, LAMBDA d : d.hour = hour)

\* generateHeatmapData: every day gets the same 24 cells, by hour alone
generateHeatmapData(data) ==
    LET hours == [ h \in 1..24 |->
                     LET cell == Cell(HourData(data, h - 1)) IN
                     [ hour |-> h - 1,
                       utilization |-> cell.utilization,
                       bookings |-> cell.bookings ] ]
    IN [ i \in 1..7 |-> [day |-> DayNames[i], hours |-> hours] ]

generateWeeklyTrend(data) ==
    [ i \in 1..7 |->
        LET dayData == SelectSeq(data, LAMBDA d : d.date.valid /\ d.date.dow = i - 1)
            cell == Cell(dayData)
        IN [ day |-> i - 1,
             utilization |-> cell.utilization,
             bookings |-> cell.bookings ] ]

\* generateHourlyTrend divides by dayData.length, and no dayData is in scope:
\* evaluating it is a ReferenceError, which happens for the first hour that has
\* a sample.  The trend exists when no sample has an hour of 0..23.
HourlyTrendThrows(data) == \E h \in 0..23 : Len(HourData(data, h)) > 0

generateHourlyTrend(data) ==
    [ h \in 1..24 |->
        [ hour |-> h - 1,
          utilization |-> Cell(<<>>).utilization,
          bookings |-> Cell(<<>>).bookings ] ]

\* `${start}:00-${end + 1}:00`
RangeLabel(start, end) ==
    NumberToString(start) \o <<":", "0", "0", "-">> \o NumberToString(end + 1)
        \o <<":", "0", "0">>

\* the loop of getPeakHourRanges from index i on, with the run start..end open
RECURSIVE PeakLoop(_, _, _, _, _)
PeakLoop(peakHours, i, start, end, ranges) ==
    IF i > Len(peakHours) THEN Append(ranges, RangeLabel(start, end))
    ELSE IF peakHours[i].hour = end + 1
         THEN PeakLoop(peakHours, i + 1, start, peakHours[i].hour, ranges)
         ELSE PeakLoop(peakHours, i + 1, peakHours[i].hour, peakHours[i].hour,
                       Append(ranges, RangeLabel(start, end)))

\* faulty variant, to test that the properties detect it: every peak hour is a range of its own
getPeakHourRangesUnmerged(peakHours) ==
    [ i \in 1..Len(peakHours) |-> RangeLabel(peakHours[i].hour, peakHours[i].hour) ]

\* getPeakHourRanges, called with a list that is not empty
getPeakHourRanges(peakHours) ==
    PeakLoop(peakHours, 2, peakHours[1].hour, peakHours[1].hour, <<>>)

\* generateRecommendations, for data whose hourly trend exists
generateRecommendations(avgUtilization, data) ==
    LET hourlyData == generateHourlyTrend(data)
        peakHours == SelectSeq(hourlyData, LAMBDA h : Greater(h.utilization, Num(70)))
    IN (IF Greater(avgUtilization, Num(80))
        THEN <<"High utilization detected - consider increasing capacity">> ELSE <<>>)
    \o (IF Less(avgUtilization, Num(30))
        THEN <<"Low utilization - consider optimizing schedule">> ELSE <<>>)
    \o (IF Len(peakHours) > 0
        THEN << [ message |-> "Peak utilization during: ",
                  ranges |-> getPeakHourRanges(peakHours) ] >>
        ELSE <<>>)
    \o <<"Monitor weather and events for demand fluctuations">>

\* generateMockAnalytics; every cell is made with the same draws rnd
generateMockAnalytics(rnd) ==
    LET heat == [ utilization |-> MathFloor(Mul(rnd[1], Num(100))),
                  bookings |-> Add(MathFloor(Mul(rnd[2], Num(50))), Num(10)) ]
        week == [ utilization |-> Add(MathFloor(Mul(rnd[1], Num(60))), Num(20)),
                  bookings |-> Add(MathFloor(Mul(rnd[2], Num(100))), Num(20)) ]
        hourly == [ utilization |-> Add(MathFloor(Mul(rnd[1], Num(80))), Num(10)),
                    bookings |-> Add(MathFloor(Mul(rnd[2], Num(30))), Num(5)) ]
        hours == [ h \in 1..24 |->
                     [ hour |-> h - 1, utilization |-> heat.utilization,
                       bookings |-> heat.bookings ] ]
    IN Synthetic(
        [ routeId |-> "mock-route",
          period |-> [start |-> ThirtyDaysAgo, end |-> Today],
          utilization |-> [average |-> Num(65), peak |-> Num(85), low |-> Num(35)],
          heatmap |-> [ i \in 1..7 |-> [day |-> DayNames[i], hours |-> hours] ],
          trends |->
              [ weekly |-> [ i \in 1..7 |->
                               [ day |-> i - 1, utilization |-> week.utilization,
                                 bookings |-> week.bookings ] ],
                hourly |-> [ h \in 1..24 |->
                               [ hour |-> h - 1, utilization |-> hourly.utilization,
                                 bookings |-> hourly.bookings ] ] ],
          recommendations |->
              << "Consider adding more vehicles during peak hours (7-9 AM, 5-7 PM)",
                 "Route shows consistent high utilization on weekdays",
                 "Weekend ridership is 40% lower than weekdays" >> ])

\* the try block of getAnalytics: its result, or the exception it ends with
getAnalyticsTry(data, routeId, startDate, endDate, rnd) ==
    LET start == IF startDate = NoDateParam THEN ThirtyDaysAgo ELSE startDate
        end == IF endDate = NoDateParam THEN Today ELSE endDate
        routeData ==
            SelectSeq(data, LAMBDA d :
                /\ d.date.valid /\ start.valid /\ end.valid
                /\ start.ord <= d.date.ord
                /\ d.date.ord <= end.ord)
    IN IF Len(routeData) = 0 THEN generateMockAnalytics(rnd)
       ELSE IF HourlyTrendThrows(routeData) THEN Thrown
       ELSE
         LET totalBookings == Num(SumBookings(routeData))
             avgCapacity == AvgCapacity(routeData)
             avgUtilization ==
                 Mul(Divide(totalBookings, Mul(Num(Len(routeData)), avgCapacity)),
                     Num(100))
         IN Computed(
              [ routeId |-> routeId,
                period |-> [start |-> start, end |-> end],
                utilization |->
                    [ average |-> MathRound(avgUtilization),
                      peak |-> MathRound(Mul(avgUtilization, Rat(13, 10))),
                      low |-> MathRound(Mul(avgUtilization, Rat(7, 10))) ],
                heatmap |-> generateHeatmapData(routeData),
                trends |-> [ weekly |-> generateWeeklyTrend(routeData),
                             hourly |-> generateHourlyTrend(routeData) ],
                recommendations |-> generateRecommendations(avgUtilization, routeData) ],
              0)

\* faulty variant, to test that the properties detect it: getAnalytics without its catch
getAnalyticsNoCatch(data, routeId, startDate, endDate, rnd) ==
    getAnalyticsTry(data, routeId, startDate, endDate, rnd)

\* getAnalytics: the catch answers an exception with the mock
getAnalytics(data, routeId, startDate, endDate, rnd) ==
    LET r == getAnalyticsTry(data, routeId, startDate, endDate, rnd) IN
    IF r.threw THEN [generateMockAnalytics(rnd) EXCEPT !.caught = TRUE] ELSE r

StartInputs == { NoDateParam, JanMonday, InvalidDate }
EndInputs == { NoDateParam, DecSaturday }

\* the estimator's GET /routes/:routeId/analytics
EstimatorAnalytics(routeId, startDate, endDate, rnd) ==
    /\ started < MaxForecasts
    /\ started' = started + 1
    /\ response' = Success("estimator", "analytics",
                           getAnalytics(historicalData, routeId, startDate, endDate, rnd),
                           FALSE)
    /\ UNCHANGED <<store, req, last, confirms, now, this, ret, historicalData, account, client>>

Analytics ==
    \E startDate \in StartInputs, endDate \in EndInputs, rnd \in RandomDraws :
        EstimatorAnalytics("A", startDate, endDate, rnd)

\* mockAnalytics of the backend's route; an absent start or end is 30 days ago
\* or today
BackendMockAnalytics(routeId, startDate, endDate, rnd) ==
    LET mock == generateMockAnalytics(rnd).data IN
    Synthetic([mock EXCEPT
        !.routeId = routeId,
        !.period = [ start |-> IF startDate = NoDateParam THEN ThirtyDaysAgo ELSE startDate,
                     end |-> IF endDate = NoDateParam THEN Today ELSE endDate ]])

\* the backend's GET /api/forecast/routes/:routeId/analytics
BackendAnalyticsWith(routeId, startDate, endDate, rnd, reached) ==
    /\ started < MaxForecasts
    /\ started' = started + 1
    /\ response' =
          IF reached
          THEN Success("backend", "analytics",
                       getAnalytics(historicalData, routeId, startDate, endDate, rnd),
                       FALSE)
          ELSE Success("backend", "analytics",
                       BackendMockAnalytics(routeId, startDate, endDate, rnd), TRUE)
    /\ UNCHANGED <<store, req, last, confirms, now, this, ret, historicalData, account, client>>

BackendAnalytics ==
    \E startDate \in StartInputs, endDate \in EndInputs, rnd \in RandomDraws,
       reached \in BOOLEAN :
        BackendAnalyticsWith("A", startDate, endDate, rnd, reached)

\* ------------------------------------- the estimator's helpers, called
\* slices of one route, weekday and hour, as getPrediction hands them to
\* calculateTrend
TrendSamples == { Sample("A", JanMonday, 9, 10, 60), Sample("A", JanMonday, 9, 40, 60) }
TrendSlices == UNION { [1..n -> TrendSamples] : n \in 0..MaxSlice }

\* samples of a date window, as getAnalytics hands them to generateHeatmapData
WindowSamples ==
    { Sample("A", date, hour, bookings, 50) :
        date \in {JanMonday, MarSaturday}, hour \in {9, 10}, bookings \in {10, 40} }
WindowSlices == UNION { [1..n -> WindowSamples] : n \in 0..2 }

Slices == TrendSlices \cup WindowSlices

\* the hours above 70% of an hourly trend: a set of hours in ascending order
RECURSIVE Ascending(_)
Ascending(hours) ==
    IF hours = {} THEN <<>>
    ELSE LET least == CHOOSE h \in hours : \A k \in hours : h <= k
         IN <<[hour |-> least]>> \o Ascending(hours \ {least})

PeakInputs == { Ascending(hours) : hours \in (SUBSET {7, 8, 10, 23}) \ {{}} }

CallTrend ==
    /\ response' = [kind |-> "trend", data |-> calculateTrend(historicalData)]
    /\ UNCHANGED <<store, req, last, confirms, started, now, this, ret, historicalData, account, client>>

CallHeatmap ==
    /\ response' = [kind |-> "heatmap", data |-> generateHeatmapData(historicalData)]
    /\ UNCHANGED <<store, req, last, confirms, started, now, this, ret, historicalData, account, client>>

CallPeakRanges ==
    \E peakHours \in PeakInputs :
        /\ response' = [ kind |-> "ranges", input |-> peakHours,
                         data |-> getPeakHourRanges(peakHours) ]
        /\ UNCHANGED <<store, req, last, confirms, started, now, this, ret,
                       historicalData, account, client>>

\* ======================================================================
\* The refresh of tokens: middleware/auth.js, routes/auth.js on the server,
\* the response interceptor of services/api.js in the browser
\* ======================================================================
\* jwt.sign({ userId }, secret, { expiresIn }): the token is determined by the
\* user, the secret and the second it is issued in (iat)
AccessToken(userId, iat) == [userId |-> userId, secret |-> "JWT_SECRET", iat |-> iat]
RefreshToken(userId, iat) ==
    [userId |-> userId, secret |-> "JWT_REFRESH_SECRET", iat |-> iat]
NoToken == [userId |-> NoUser, secret |-> "none", iat |-> 0]

generateTokens(userId, t) ==
    [accessToken |-> AccessToken(userId, t), refreshToken |-> RefreshToken(userId, t)]
NoTokens == [accessToken |-> NoToken, refreshToken |-> NoToken]

\* the User document after a login at the start of the clock, and the
\* browser's localStorage holding the tokens of that login
LoggedIn == [_id |-> "u1", refreshTokens |-> <<RefreshToken("u1", MinTravelDate)>>]
Stored ==
    [ accessToken |-> AccessToken("u1", MinTravelDate),
      refreshToken |-> RefreshToken("u1", MinTravelDate),
      pc |-> "idle", sent |-> NoToken, reply |-> NoTokens, status |-> 0 ]

\* authenticateRefreshToken: TRUE when it calls next()
authenticateRefreshToken(doc, refreshToken) ==
    /\ refreshToken # NoToken
    /\ refreshToken.secret = "JWT_REFRESH_SECRET"
    /\ refreshToken.userId = doc._id
    /\ \E i \in 1..Len(doc.refreshTokens) : doc.refreshTokens[i] = refreshToken

\* router.post('/refresh'): the document it saves
refresh(doc, refreshToken, tokens) ==
    [doc EXCEPT !.refreshTokens =
        Append(SelectSeq(@, LAMBDA token : token # refreshToken), tokens.refreshToken)]

\* the interceptor on a response with status 401 whose request was not
\* retried yet, up to its await of the POST /auth/refresh
Intercept401 ==
    /\ client.pc = "idle"
    /\ client.refreshToken # NoToken
    /\ started < MaxRequests
    /\ started' = started + 1
    /\ client' = [client EXCEPT !.pc = "refreshing", !.sent = client.refreshToken]
    /\ UNCHANGED <<store, req, last, confirms, now, this, ret, historicalData,
                   response, account>>

\* the server's POST /api/auth/refresh with the token the browser sent
ServeRefresh ==
    /\ client.pc = "refreshing"
    /\ IF authenticateRefreshToken(account, client.sent)
       THEN LET tokens == generateTokens(account._id, now) IN
            /\ account' = refresh(account, client.sent, tokens)
            /\ client' = [client EXCEPT !.pc = "replied", !.status = 200,
                                         !.reply = tokens]
       ELSE /\ client' = [client EXCEPT !.pc = "replied", !.status = 401,
                                         !.reply = NoTokens]
            /\ UNCHANGED account
    /\ UNCHANGED <<store, req, last, confirms, started, now, this, ret,
                   historicalData, response>>

\* the interceptor after the await: it stores the accessToken of the answer
\* and retries, or, the refresh having failed, clears the storage and goes to
\* the login page
InterceptReply ==
    /\ client.pc = "replied"
    /\ client' =
          IF client.status = 200
          THEN [client EXCEPT !.pc = "idle", !.accessToken = client.reply.accessToken,
                              !.sent = NoToken, !.reply = NoTokens, !.status = 0]
          ELSE [client EXCEPT !.pc = "login", !.accessToken = NoToken,
                              !.refreshToken = NoToken,
                              !.sent = NoToken, !.reply = NoTokens, !.status = 0]
    /\ UNCHANGED <<store, req, last, confirms, started, now, this, ret,
                   historicalData, response, account>>

\* POST /api/auth/login of the same person on another device: the server
\* adds the refresh token it issues to the document
LoginElsewhere ==
    /\ started < MaxRequests
    /\ started' = started + 1
    /\ account' = [account EXCEPT !.refreshTokens =
                    Append(@, generateTokens(account._id, now).refreshToken)]
    /\ UNCHANGED <<store, req, last, confirms, now, this, ret, historicalData,
                   response, client>>

\* POST /api/auth/logout-all of the same person on another device
LogoutAll ==
    /\ started < MaxRequests
    /\ started' = started + 1
    /\ account' = [account EXCEPT !.refreshTokens = <<>>]
    /\ UNCHANGED <<store, req, last, confirms, now, this, ret, historicalData,
                   response, client>>

\* ======================================================================
\* The specifications
\* ======================================================================
\* the server with an empty bookings collection and no request in progress
Init ==
    /\ store = <<>>
    /\ req = [q \in Slots |-> Free]
    /\ last = NoResponse
    /\ confirms = [i \in 1..MaxRequests |-> 0]
    /\ started = 0
    /\ now = MinTravelDate
    /\ this = NoDoc
    /\ ret = NoCall
    /\ historicalData = <<>>
    /\ response = NoForecast
    /\ account = LoggedIn
    /\ client = Stored

Next ==
    \/ \E q \in Slots : PostCheck(q)
    \/ \E q \in Slots : PostSave(q)
    \/ \E q \in Slots : CancelLoad(q)
    \/ \E q \in Slots : CancelApply(q)
    \/ \E q \in Slots : ConfirmLoad(q)
    \/ \E q \in Slots : ConfirmApply(q)
    \/ \E q \in Slots : CheckInLoad(q)
    \/ \E q \in Slots : CheckInApply(q)

Spec == Init /\ [][Next]_vars

\* one booking document and the lifecycle methods called on it in any order
InitLifecycle ==
    /\ store = <<>>
    /\ req = [q \in Slots |-> Free]
    /\ last = NoResponse
    /\ confirms = [i \in 1..MaxRequests |-> 0]
    /\ started = 0
    /\ now = MinTravelDate
    /\ this \in LifecycleDocs
    /\ ret = NoCall
    /\ historicalData = <<>>
    /\ response = NoForecast
    /\ account = LoggedIn
    /\ client = Stored

NextLifecycle ==
    \/ CallCancel
    \/ CallConfirm
    \/ CallComplete
    \/ CallCheckIn
    \/ Tick

SpecLifecycle == InitLifecycle /\ [][NextLifecycle]_vars

\* the server receiving reservations for seats of the first schedule
NextSeats ==
    \/ \E q \in Slots : PostSeat(q)
    \/ \E q \in Slots : PostSave(q)

SpecSeats == Init /\ [][NextSeats]_vars

\* reservations of two passengers and requests for a user's bookings
NextUsers ==
    \/ \E q \in Slots : PostUser(q)
    \/ \E q \in Slots : PostSave(q)
    \/ GetUserBookings

SpecUsers == Init /\ [][NextUsers]_vars

\* the estimator started with some samples, and the requests for forecasts
InitForecast ==
    /\ store = <<>>
    /\ req = [q \in Slots |-> Free]
    /\ last = NoResponse
    /\ confirms = [i \in 1..MaxRequests |-> 0]
    /\ started = 0
    /\ now = MinTravelDate
    /\ this = NoDoc
    /\ ret = NoCall
    /\ historicalData \in Datasets
    /\ response = NoForecast
    /\ account = LoggedIn
    /\ client = Stored

NextForecast ==
    \/ Predict
    \/ BackendPredict
    \/ Analytics
    \/ BackendAnalytics

SpecForecast == InitForecast /\ [][NextForecast]_vars

\* the estimator's helpers called on slices of samples
InitHelpers ==
    /\ store = <<>>
    /\ req = [q \in Slots |-> Free]
    /\ last = NoResponse
    /\ confirms = [i \in 1..MaxRequests |-> 0]
    /\ started = 0
    /\ now = MinTravelDate
    /\ this = NoDoc
    /\ ret = NoCall
    /\ historicalData \in Slices
    /\ response = NoForecast
    /\ account = LoggedIn
    /\ client = Stored

NextHelpers ==
    \/ CallTrend
    \/ CallHeatmap
    \/ CallPeakRanges

SpecHelpers == InitHelpers /\ [][NextHelpers]_vars

\* the browser of a logged-in person, the server and the clock
NextAuth ==
    \/ Intercept401
    \/ ServeRefresh
    \/ InterceptReply
    \/ LoginElsewhere
    \/ LogoutAll
    \/ Tick

SpecAuth == Init /\ [][NextAuth]_vars

\* ======================================================================
\* Properties
\* ======================================================================
Active(d) == d.status \in ActiveStatuses

SameSeat(a, b) ==
    /\ a.schedule = b.schedule
    /\ a.travelDate = b.travelDate
    /\ a.seatNumber = b.seatNumber

\* the body names an existing route and a schedule of that route, and its
\* fields pass the route's validators
WellFormed(b) == b.travelDate.iso /\ b.fare.numeric /\ Trim(b.seatNumber) # <<>>
NamesSchedule(b) ==
    /\ b.routeId \in RouteStore
    /\ b.scheduleId \in ScheduleStore
    /\ ScheduleRoute(b.scheduleId) = b.routeId

\* the bodies that reach the seat check, and those that name no schedule of
\* an existing route
BookableBodies ==
    { x : x \in { b \in PostBodies : WellFormed(b) /\ NamesSchedule(b) } }
DanglingBodies ==
    { x : x \in { b \in PostBodies :
                    WellFormed(b) /\ b.routeId \in ObjectIds /\ ~NamesSchedule(b) } }

\* an active booking holds the seat the body asks for
SeatHeld(b) ==
    \E i \in 1..Len(store) :
        /\ Active(store[i])
        /\ store[i].schedule = b.scheduleId
        /\ store[i].travelDate = b.travelDate.t
        /\ store[i].seatNumber = b.seatNumber

\* C1: for every (schedule, travelDate, seatNumber) at most one booking with
\* status pending or confirmed is stored, in every reachable state, also when
\* requests for the same seat are handled concurrently.
C1_SeatUniqueness ==
    \A i, j \in 1..Len(store) :
        (i # j /\ Active(store[i]) /\ Active(store[j]))
            => ~SameSeat(store[i], store[j])

\* C2: in every reachable state, a POST that names an existing route and one
\* of its schedules, passes the validators and asks for a seat that a pending
\* or confirmed booking holds is answered 409, not 400 or 404, whoever sends
\* it (the handler does not look at the sender before it answers).  That the
\* request answered 409 creates no booking is part of C3.
C2_SequentialConflict ==
    \A b \in BookableBodies :
        SeatHeld(b) =>
            PostCheckStatus(store, b) = 409

C2_Witness ==
    /\ last = Responded("create", 0, 409)
    /\ Len(store) = 1
    /\ Active(store[1])
    /\ started = 2

C10_NotFoundBeforeSeatCheck ==
    \A b \in DanglingBodies : PostCheckStatus(store, b) = 404

C10_Witness ==
    /\ last = Responded("create", 0, 404)
    /\ \E b \in DanglingBodies : SeatHeld(b)
    /\ \A q \in Slots : req[q].pc = "free"

\* ------------------------------------------------- the lifecycle methods
LifecycleCall == CallCancel \/ CallConfirm \/ CallComplete \/ CallCheckIn

\* C4: once a booking's status is cancelled, completed or no_show, every call
\* of confirm, cancel, checkIn or complete on it fails and leaves the status as
\* it is.
C4_TerminalIsFinal ==
    [][ (this.status \in {"cancelled", "completed", "no_show"} /\ LifecycleCall)
            => (~ret'.ok /\ this'.status = this.status) ]_vars

\* C5: confirm succeeds exactly when the booking's status is pending; it then
\* sets status to confirmed and paymentStatus to paid and nothing else; on a
\* booking in another status it fails and leaves the booking as it is.
C5_ConfirmRequiresPending ==
    [][ CallConfirm =>
            IF this.status = "pending"
            THEN /\ ret'.ok
                 /\ this' = [this EXCEPT !.status = "confirmed",
                                         !.paymentStatus = "paid"]
            ELSE /\ ~ret'.ok
                 /\ this'.status = this.status
                 /\ this'.paymentStatus = this.paymentStatus ]_vars

C5_Witness ==
    /\ ret = [op |-> "confirm", ok |-> FALSE,
              error |-> "Only pending bookings can be confirmed"]
    /\ this.status = "confirmed"
    /\ this.paymentStatus = "paid"

\* C7 as stated: cancel(reason, actor) on a pending or confirmed booking sets
\* status to cancelled, cancellationReason to the given reason, cancelledBy to
\* the actor and cancelledAt; a cancel on a cancelled booking fails and leaves
\* the four fields as they are.
C7_CancelRecordsGivenReason ==
    [][ \A reason \in RawReasons, by \in Users :
            CancelWith(reason, by) =>
                /\ this.status \in ActiveStatuses =>
                       /\ ret'.ok
                       /\ this'.status = "cancelled"
                       /\ this'.cancellationReason = reason
                       /\ this'.cancelledBy = by
                       /\ this'.cancelledAt = now
                /\ this.status = "cancelled" =>
                       /\ ~ret'.ok
                       /\ this'.status = this.status
                       /\ this'.cancellationReason = this.cancellationReason
                       /\ this'.cancelledBy = this.cancelledBy
                       /\ this'.cancelledAt = this.cancelledAt ]_vars

\* C7 as amended: the reason recorded is the given one without its leading and
\* trailing blanks, and cancel succeeds when that has at most 500 characters;
\* with a longer reason it fails and the stored booking stays as it is.
C7_CancelRecordsTrimmedReason ==
    [][ \A reason \in RawReasons, by \in Users :
            CancelWith(reason, by) =>
                /\ (this.status \in ActiveStatuses /\ Len(Trim(reason)) <= 500) =>
                       /\ ret'.ok
                       /\ this'.status = "cancelled"
                       /\ this'.cancellationReason = Trim(reason)
                       /\ this'.cancelledBy = by
                       /\ this'.cancelledAt = now
                       /\ this'.cancelledAt # NoDate
                /\ (this.status \in ActiveStatuses /\ Len(Trim(reason)) > 500) =>
                       /\ ~ret'.ok
                       /\ this' = this
                /\ this.status = "cancelled" =>
                       /\ ~ret'.ok
                       /\ this'.status = this.status
                       /\ this'.cancellationReason = this.cancellationReason
                       /\ this'.cancelledBy = this.cancelledBy
                       /\ this'.cancelledAt = this.cancelledAt ]_vars

\* a second cancel has failed on a booking that a first one cancelled with a
\* reason that had blanks around it, at another time
C7_Witness ==
    /\ ret = [op |-> "cancel", ok |-> FALSE, error |-> "Booking already cancelled"]
    /\ this.status = "cancelled"
    /\ this.cancellationReason = <<"o", "k">>
    /\ this.cancelledAt # NoDate
    /\ this.cancelledAt < now

\* ---------------------------------------------------- the PUT handlers
\* C6: at most one confirm request per booking is answered 200, also when two
\* of them are handled concurrently.
C6_ConfirmSucceedsOnce == \A i \in DOMAIN confirms : confirms[i] <= 1

\* C8: a cancel, confirm or check-in request of a requester who is neither
\* the booking's owner nor an administrator is answered 403 and leaves the
\* store as it is; 403 is only ever the answer about a booking that exists (a
\* missing one is answered 404).
C8_OthersAreDenied ==
    [][ \A q \in Slots :
          (req[q].pc = "loaded" /\ req'[q].pc = "free") =>
             /\ (req[q].user # req[q].doc.user /\ Role(req[q].user) # "admin") =>
                   /\ last' = Responded(req[q].kind, req[q].id, 403)
                   /\ store' = store
             /\ last'.status = 403 => last'.id \in 1..Len(store) ]_vars

\* the booking of an administrator, and a request about it was denied: the
\* requester was another user, who is no administrator
C8_Witness ==
    /\ last.status = 403
    /\ last.kind = "checkIn"
    /\ store[last.id].user = "admin"
    /\ store[last.id].status = "confirmed"

\* C9: a cancel, confirm or check-in request of an administrator who is not
\* the booking's owner is not denied, and the lifecycle method is applied.
C9_AdminMayManage ==
    [][ \A q \in Slots :
          (req[q].pc = "loaded" /\ req'[q].pc = "free"
             /\ Role(req[q].user) = "admin" /\ req[q].user # req[q].doc.user)
          => last'.status # 403 ]_vars

\* ---------------------------------------------- seat labels and travel days
\* C11: every booking the server stores has a seat label that the listing
\* enumerates for its schedule's vehicle (Seat 1 .. Seat <capacity>): a request
\* with another label, or an index above the capacity, creates no booking.
C11_OnlyEnumeratedSeats ==
    \A i \in 1..Len(store) : store[i].seatNumber \in EnumeratedSeats(store[i].schedule)

\* the calendar day of an instant: two instants a day
CalendarDay(t) == t \div 2

\* C12: a reservation for a schedule and seat that a pending or confirmed
\* booking holds at some instant of the same calendar day is answered 409.
C12_SameDayConflict ==
    \A b \in SeatBodies :
        (\E i \in 1..Len(store) :
            /\ Active(store[i])
            /\ store[i].schedule = b.scheduleId
            /\ store[i].seatNumber = b.seatNumber
            /\ CalendarDay(store[i].travelDate) = CalendarDay(b.travelDate.t))
        => PostCheckStatus(store, b) = 409

\* ------------------------------------------------------- notifications
\* C13: a create or cancel request whose save went through is answered with
\* its success response (201, 200), also when the emit of booking:create or
\* booking:cancel throws.
C13_EmitFailureIsHarmless ==
    [][ \A q \in Slots :
          (req[q].kind \in {"create", "cancel"} /\ req[q].pc # "free"
             /\ req'[q].pc = "free" /\ store' # store)
          => last' = Responded(req[q].kind,
                               IF req[q].kind = "create" THEN Len(store') ELSE req[q].id,
                               IF req[q].kind = "create" THEN 201 ELSE 200) ]_vars

\* ------------------------------------------------------------ retention
\* C14: no request removes a booking: every step keeps the stored bookings,
\* each under its id and with its owner, seat and reference, and the number of
\* stored bookings never decreases; a cancel changes fields only.
C14_NeverDeleted ==
    [][ /\ Len(store') >= Len(store)
        /\ \A i \in 1..Len(store) :
              /\ store'[i].bookingReference = store[i].bookingReference
              /\ store'[i].user = store[i].user
              /\ store'[i].schedule = store[i].schedule
              /\ store'[i].travelDate = store[i].travelDate
              /\ store'[i].seatNumber = store[i].seatNumber ]_vars

\* a cancel was answered 200 and the booking is stored as cancelled
C14_Witness ==
    /\ last.kind = "cancel"
    /\ last.status = 200
    /\ last.id \in 1..Len(store)
    /\ store[last.id].status = "cancelled"
    /\ Len(store) = 2

\* ------------------------------------------------------------ forecasts
AtLeast(x, i) == x.kind = "num" /\ x.n >= i * x.d
AtMost(x, i) == x.kind = "num" /\ x.n <= i * x.d

\* C15: every prediction handed to a caller, whether computed from samples,
\* made by the estimator's fallback or by the backend's mock, has
\* predicted_count >= 0, 0 <= utilization_pct <= 100 and 60 <= confidence <= 95.
C15_PredictionBounds ==
    response.kind = "prediction" =>
        /\ AtLeast(response.data.predicted_count, 0)
        /\ AtLeast(response.data.utilization_pct, 0)
        /\ AtMost(response.data.utilization_pct, 100)
        /\ AtLeast(response.data.confidence, 60)
        /\ AtMost(response.data.confidence, 95)

\* C16: getPrediction and getAnalytics always answer, whatever the samples:
\* every prediction is a success with route, predicted_count, capacity,
\* utilization_pct, confidence and an explanation list that is not empty;
\* every analytics answer is a success with routeId, utilization, a heatmap of
\* 7 days of 24 hours, a weekly trend of 7 points, an hourly trend of 24
\* points and recommendations.
C16_AlwaysComplete ==
    /\ response.kind = "prediction" =>
          /\ response.status = 200
          /\ { "route", "predicted_count", "capacity", "utilization_pct",
               "confidence", "explanation" } \subseteq DOMAIN response.data
          /\ Len(response.data.explanation) >= 1
    /\ response.kind = "analytics" =>
          /\ response.status = 200
          /\ { "routeId", "utilization", "heatmap", "trends", "recommendations" }
                \subseteq DOMAIN response.data
          /\ DOMAIN response.data.heatmap = 1..7
          /\ \A i \in 1..7 : DOMAIN response.data.heatmap[i].hours = 1..24
          /\ DOMAIN response.data.trends.weekly = 1..7
          /\ DOMAIN response.data.trends.hourly = 1..24

\* the estimator answered an analytics request whose computation threw
C16_Witness ==
    /\ response.kind = "analytics"
    /\ response.source = "estimator"
    /\ response.caught
    /\ response.status = 200
    /\ Len(historicalData) > 0

\* C17: a successful forecast response carries the note that marks it as
\* degraded exactly when its payload was not made from samples.
C17_DegradedIffSynthetic ==
    response.status = 200 => (response.note <=> response.synthetic)

\* C20 as stated: the adjustment of a prediction made from samples is +5 for
\* a date in November or December, else -3 in May to September, else -5 on a
\* Saturday or Sunday, else 0.
C20_SeasonalNovemberDecember ==
    (response.kind = "prediction" /\ ~response.synthetic) =>
        LET date == response.data.datetime IN
        response.seasonal =
            IF date.month \in {10, 11} THEN 5
            ELSE IF date.month \in 4..8 THEN -3
            ELSE IF date.dow \in {0, 6} THEN -5
            ELSE 0

\* C20 as amended: +5 for a date in December or January (month index 11 or
\* 0), else -3 in May to September, else -5 on a Saturday or Sunday, else 0.
C20_SeasonalDecemberJanuary ==
    (response.kind = "prediction" /\ ~response.synthetic) =>
        LET date == response.data.datetime IN
        /\ date.month \in {11, 0} => response.seasonal = 5
        /\ (date.month \notin {11, 0} /\ date.month \in 4..8) => response.seasonal = -3
        /\ (date.month \notin {11, 0} /\ date.month \notin 4..8 /\ date.dow \in {0, 6})
              => response.seasonal = -5
        /\ (date.month \notin {11, 0} /\ date.month \notin 4..8 /\ date.dow \notin {0, 6})
              => response.seasonal = 0

\* a prediction from samples for a Saturday in December got +5
C20_Witness ==
    /\ response.kind = "prediction"
    /\ ~response.synthetic
    /\ response.data.datetime = DecSaturday
    /\ response.seasonal = 5

\* C18: GET /api/users/:id/bookings sends the bookings of user :id when the
\* requester is that user or an admin; any other authenticated requester is
\* answered 403 and is sent no booking.
C18_OwnerOrAdminOnly ==
    last.kind = "userBookings" =>
        IF last.requester = last.owner \/ Role(last.requester) = "admin"
        THEN last.status = 200
        ELSE last.status = 403 /\ last.bookings = <<>>

\* C19: checkIn succeeds exactly when the booking's status is confirmed; it
\* then records checkInTime and leaves the status and every other field as
\* they are; on a booking in another status it fails and changes nothing.
C19_CheckInRequiresConfirmed ==
    [][ CallCheckIn =>
            IF this.status = "confirmed"
            THEN /\ ret'.ok
                 /\ this' = [this EXCEPT !.checkInTime = now]
                 /\ this'.status = "confirmed"
            ELSE /\ ~ret'.ok
                 /\ this' = this ]_vars

\* a confirmed booking was checked in
C19_Witness ==
    /\ ret = [op |-> "checkIn", ok |-> TRUE, error |-> ""]
    /\ this.status = "confirmed"
    /\ this.checkInTime # NoDate

\* ------------------------------------------- the estimator's helpers
\* the sum of the bookings of data[lo..hi]
RECURSIVE BookingsOf(_, _, _)
BookingsOf(data, lo, hi) ==
    IF lo > hi THEN 0 ELSE data[lo].bookings + BookingsOf(data, lo + 1, hi)

\* C21: the trend of a slice is the mean bookings of its last 7 samples minus
\* the mean bookings of all older samples, and 0 when the slice has 7 samples
\* or fewer.
C21_TrendIsRecentMinusOlder ==
    response.kind = "trend" =>
        LET n == Len(historicalData) IN
        IF n <= 7 THEN response.data = Num(0)
        ELSE response.data =
                Sub(Rat(BookingsOf(historicalData, n - 6, n), 7),
                    Rat(BookingsOf(historicalData, 1, n - 7), n - 7))

\* the trend of a slice of 9 samples whose recent samples are busier
C21_Witness ==
    /\ response.kind = "trend"
    /\ Len(historicalData) = 9
    /\ historicalData[1].bookings = 10
    /\ historicalData[9].bookings = 40
    /\ Greater(response.data, Num(0))

\* C23: the heatmap cell of day d and hour h holds the mean utilization and
\* bookings of the samples of day d and hour h, and 0 / 0 without any.
C23_HeatmapCellsByDayAndHour ==
    response.kind = "heatmap" =>
        \A i \in 1..7, h \in 0..23 :
            LET cell == Cell(SelectSeq(historicalData, LAMBDA d :
                                 d.date.dow = i % 7 /\ d.hour = h))
                shown == response.data[i].hours[h + 1]
            IN /\ shown.utilization = cell.utilization
               /\ shown.bookings = cell.bookings

\* C24: getPeakHourRanges returns one range per maximal run of consecutive
\* hours, in ascending order: the k-th range is s:00-(e+1):00 of the k-th run
\* s..e (7 and 8 give the single range 7:00-9:00).
C24_OneRangePerRun ==
    response.kind = "ranges" =>
        LET hours == { response.input[i].hour : i \in 1..Len(response.input) }
            runs == { run \in hours \X hours :
                        /\ run[1] <= run[2]
                        /\ \A h \in run[1]..run[2] : h \in hours
                        /\ (run[1] - 1) \notin hours
                        /\ (run[2] + 1) \notin hours }
        IN /\ Len(response.data) = Cardinality(runs)
           /\ \A run \in runs :
                 response.data[Cardinality({ r \in runs : r[1] < run[1] }) + 1]
                     = RangeLabel(run[1], run[2])

\* the ranges of the peak hours 7, 8 and 10
C24_Witness ==
    /\ response.kind = "ranges"
    /\ response.input = <<[hour |-> 7], [hour |-> 8], [hour |-> 10]>>
    /\ response.data = << <<"7", ":", "0", "0", "-", "9", ":", "0", "0">>,
                          <<"1", "0", ":", "0", "0", "-", "1", "1", ":", "0", "0">> >>

\* ------------------------------------------------------- the analytics
\* the samples of data dated from start to end, both included; an absent
\* start is 30 days ago, an absent end is today
InWindow(data, startDate, endDate) ==
    LET start == IF startDate = NoDateParam THEN ThirtyDaysAgo ELSE startDate
        end == IF endDate = NoDateParam THEN Today ELSE endDate
    IN SelectSeq(data, LAMBDA d :
           /\ d.date.valid /\ start.valid /\ end.valid
           /\ start.ord <= d.date.ord /\ d.date.ord <= end.ord)

\* C22: when a sample falls inside the date window, getAnalytics answers
\* with the requested routeId and the utilization of the samples in the
\* window: average = round(bookings / (count x mean capacity) x 100), peak =
\* round(average x 1.3), low = round(average x 0.7), not the mock's values.
C22_AnalyticsFromSamples ==
    [][ \A startDate \in StartInputs, endDate \in EndInputs, rnd \in RandomDraws :
          LET samples == InWindow(historicalData, startDate, endDate) IN
          (EstimatorAnalytics("A", startDate, endDate, rnd) /\ Len(samples) > 0) =>
              LET average ==
                      Mul(Divide(Num(SumBookings(samples)),
                                 Mul(Num(Len(samples)), AvgCapacity(samples))),
                          Num(100))
              IN /\ ~response'.synthetic
                 /\ response'.data.routeId = "A"
                 /\ response'.data.utilization =
                        [ average |-> MathRound(average),
                          peak |-> MathRound(Mul(average, Rat(13, 10))),
                          low |-> MathRound(Mul(average, Rat(7, 10))) ] ]_vars

C29_AnalyticsRouteIsolation ==
    [][ \A startDate \in StartInputs, endDate \in EndInputs, rnd \in RandomDraws :
          EstimatorAnalytics("A", startDate, endDate, rnd) =>
              LET own == SelectSeq(historicalData, LAMBDA d : d.route = "A")
                  alone == getAnalytics(own, "A", startDate, endDate, rnd).data
              IN /\ response'.data.utilization = alone.utilization
                 /\ response'.data.heatmap = alone.heatmap
                 /\ response'.data.trends = alone.trends
                 /\ response'.data.recommendations = alone.recommendations ]_vars

\* ------------------------------------------------ cancelling and the seat
\* a cancelled booking is stored for the seat, and no pending or confirmed one
Released(schedule, travelDate, seatNumber) ==
    /\ \E i \in 1..Len(store) :
          /\ store[i].status = "cancelled"
          /\ store[i].schedule = schedule
          /\ store[i].travelDate = travelDate
          /\ store[i].seatNumber = seatNumber
    /\ \A i \in 1..Len(store) :
          Active(store[i]) =>
              ~(/\ store[i].schedule = schedule
                /\ store[i].travelDate = travelDate
                /\ store[i].seatNumber = seatNumber)

\* C26: once the booking of a seat is cancelled, a reservation for the same
\* schedule, travel date and seat passes the seat check, is answered 201 and
\* adds a pending booking, and the cancelled booking stays stored as it is.
C26_CancelFreesSeat ==
    [][ \A q \in Slots :
          /\ \A user \in Creators, b \in BookableBodies :
                (/\ PostRequest(q, user, b)
                 /\ Released(b.scheduleId, b.travelDate.t, Trim(b.seatNumber)))
                => req'[q].pc = "saving"
          /\ (/\ req[q].pc = "saving"
              /\ req'[q].pc = "free"
              /\ SchemaErrors(req[q].doc) = {}
              /\ Released(req[q].doc.schedule, req[q].doc.travelDate,
                          req[q].doc.seatNumber))
             => /\ last' = Responded("create", Len(store) + 1, 201)
                /\ Len(store') = Len(store) + 1
                /\ SubSeq(store', 1, Len(store)) = store
                /\ store'[Len(store')].status = "pending" ]_vars

\* ------------------------------------------------------------- payment
\* C27: in every reachable state a stored booking with status confirmed or
\* completed has paymentStatus paid, and a booking with paymentStatus paid
\* has had a confirm that succeeded, whatever the interleaving of the
\* requests.
C27_PaidIffConfirmed ==
    \A i \in 1..Len(store) :
        /\ store[i].status \in {"confirmed", "completed"} => store[i].paymentStatus = "paid"
        /\ store[i].paymentStatus = "paid" => confirms[i] >= 1

\* a booking that was confirmed and then cancelled keeps its payment
C27_Witness ==
    \E i \in 1..Len(store) :
        /\ store[i].status = "cancelled"
        /\ store[i].paymentStatus = "paid"
        /\ confirms[i] = 1

\* ------------------------------------------- confirm and cancel overlapping
\* C28: when a confirm and a cancel of one pending booking overlap (each
\* loads the booking before the other saves), the one that saves second is
\* not answered 200, and no stored booking has status confirmed together
\* with a cancelledAt, cancellationReason or cancelledBy.
C28_ConfirmCancelOverlap ==
    [][ /\ \A i \in 1..Len(store') :
              store'[i].status = "confirmed" =>
                  /\ store'[i].cancelledAt = NoDate
                  /\ store'[i].cancellationReason = <<>>
                  /\ store'[i].cancelledBy = NoUser
        /\ \A q \in Slots :
              (/\ req[q].pc = "loaded"
               /\ req'[q].pc = "free"
               /\ req[q].doc.status = "pending"
               /\ \/ req[q].kind = "cancel" /\ store[req[q].id].status = "confirmed"
                  \/ req[q].kind = "confirm" /\ store[req[q].id].status = "cancelled")
              => last' # Responded(req[q].kind, req[q].id, 200) ]_vars

\* ------------------------------------------------------ refresh tokens
\* C30: when the interceptor completes a successful refresh (and the session
\* the server issued with it has not been ended meanwhile), the refresh
\* token in the browser's storage is one the server accepts, so that the next
\* 401 can be recovered by a refresh too.
C30_StoredRefreshTokenAccepted ==
    [][ (/\ client.pc = "replied"
         /\ client.status = 200
         /\ client'.pc = "idle"
         /\ authenticateRefreshToken(account, client.reply.refreshToken))
        => authenticateRefreshToken(account', client'.refreshToken) ]_vars

====
